---- MODULE Spec2Model ----
(***************************************************************************)
(* chromatix: the source elements (elements/sources.py) and the pipeline   *)
(* composer OpticalSystem with its factory system_prop_lens_prop           *)
(* (systems/optical_system.py).                                            *)
(*                                                                         *)
(* Two state machines share the module:                                    *)
(*   Spec     one OpticalSystem: construction, then invocations that       *)
(*            thread a value through the element list, one stage a step;   *)
(*   SpecSrc  one source element: construction, then its __call__.         *)
(* Numbers that are floats in the program are fixed-point integers in      *)
(* units of 2^-23, the float32 machine epsilon the program uses.           *)
(***************************************************************************)
EXTENDS Integers, Sequences, FiniteSets, TLC

\* At most this many elements in a constructed OpticalSystem.
MaxElems == 3
\* At most this many invocations of one constructed OpticalSystem.
MaxCalls == 2
\* At most this many attributes of one source supplied as generator callables.
MaxGen == 2

VARIABLES
    sys,        \* "none" | "built": whether the OpticalSystem was constructed
    elements,   \* OpticalSystem.elements
    configured, \* history: the list handed to the constructor
    factory,    \* history: the arguments of system_prop_lens_prop, if it built the system
    pc,         \* position in __call__: "idle" | "loop" | "returned" | "raised"
    args,       \* *args of the running / last invocation
    field,      \* the local variable `field` of __call__
    idx,        \* position of the for loop in elements[1:]
    calls,      \* history: the element calls of this invocation, [el, in, out]
    result,     \* what the last invocation returned or raised
    hist,       \* history: the finished invocations, [args, outcome]
    given,      \* history: the class and keyword arguments handed to the constructor
    module,     \* the source element under construction / constructed
    srcPc,      \* "none" | "built" | "ctor_error" | "returned" | "raised"
    fnArgs,     \* the arguments __call__ handed to the generating function
    events,     \* history: what the generating function did, in order
    out         \* what the source's __call__ returned or raised

sysVars == <<sys, elements, configured, factory, pc, args, field, idx, calls, result, hist>>
srcVars == <<given, module, srcPc, fnArgs, events, out>>
vars == <<sys, elements, configured, factory, pc, args, field, idx, calls, result, hist,
          given, module, srcPc, fnArgs, events, out>>

(***************************************************************************)
(* Values                                                                  *)
(***************************************************************************)

\* 1.0 in fixed point.
One == 2^23

\* float(np.finfo(np.float32).eps) = 2^-23, in fixed point.
epsilon == 1

\* Python's None.
None == [type |-> "None"]

\* An exception leaving a call.
Raised(e) == [type |-> "Raised", error |-> e]

IsRaised(v) == v.type = "Raised"

\* A scalar argument such as a defocus distance z.
Scalar(v) == [type |-> "Scalar", v |-> v]

IsField(v) == v.type = "Field"

\* An attribute supplied as a concrete value.
Concrete(v) == [gen |-> FALSE, v |-> v]

\* An attribute supplied as a generator callable (key -> v).
Generator(v) == [gen |-> TRUE, v |-> v]

(***************************************************************************)
(* Source elements: the flax dataclass fields                              *)
(***************************************************************************)

SourceClasses ==
    {"PointSource", "ObjectivePointSource", "PlaneWave", "GenericField", "GaussianPlaneWave"}

\* The dataclass fields of each source class.
Fields(cls) ==
    CASE cls = "PointSource" ->
           {"shape", "dx", "spectrum", "spectral_density", "z", "n", "power",
            "amplitude", "pupil", "scalar", "epsilon"}
      [] cls = "ObjectivePointSource" ->
           {"shape", "dx", "spectrum", "spectral_density", "f", "n", "NA", "power",
            "amplitude", "offset", "scalar"}
      [] cls = "PlaneWave" ->
           {"shape", "dx", "spectrum", "spectral_density", "power", "amplitude",
            "kykx", "pupil", "scalar"}
      [] cls = "GenericField" ->
           {"dx", "spectrum", "spectral_density", "amplitude", "phase", "power",
            "pupil", "scalar"}
      [] cls = "GaussianPlaneWave" ->
           {"shape", "dx", "spectrum", "spectral_density", "waist", "power",
            "amplitude", "kykx", "pupil", "scalar"}

\* The fields declared without a default: the constructor needs them.
Required(cls) ==
    CASE cls = "PointSource" -> {"shape", "dx", "spectrum", "spectral_density", "z", "n"}
      [] cls = "ObjectivePointSource" ->
           {"shape", "dx", "spectrum", "spectral_density", "f", "n", "NA"}
      [] cls = "PlaneWave" -> {"shape", "dx", "spectrum", "spectral_density"}
      [] cls = "GenericField" -> {"dx", "spectrum", "spectral_density", "amplitude", "phase"}
      [] cls = "GaussianPlaneWave" ->
           {"shape", "dx", "spectrum", "spectral_density", "waist"}

\* The declared default of a field that has one.
Default(k) ==
    CASE k = "power" -> Concrete(One)
      [] k = "amplitude" -> Concrete(1)
      [] k = "offset" -> Concrete(<<0, 0>>)
      [] k = "kykx" -> Concrete(<<0, 0>>)
      [] k = "pupil" -> "None"
      [] k = "scalar" -> TRUE
      [] k = "epsilon" -> epsilon

\* The dataclass constructor: an unknown keyword or a missing required field is
\* a TypeError; nothing else is validated.
NewModule(cls, kw) ==
    IF DOMAIN kw \subseteq Fields(cls) /\ Required(cls) \subseteq DOMAIN kw
    THEN [k \in Fields(cls) \cup {"type", "cls"} |->
            IF k = "type" THEN "Module"
            ELSE IF k = "cls" THEN cls
            ELSE IF k \in DOMAIN kw THEN kw[k] ELSE Default(k)]
    ELSE Raised("TypeError")

\* The scalar- or array-valued attributes and arguments.
ScalarNames ==
    {"dx", "spectrum", "spectral_density", "z", "n", "f", "NA", "power", "amplitude",
     "kykx", "offset", "phase", "waist"}

\* chromatix.elements.utils.register: a generator callable is resolved to a
\* concrete value, a concrete value is returned as it is.
register(m, name) ==
    IF m[name].gen THEN Concrete(m[name].v) ELSE m[name]

(***************************************************************************)
(* Source elements: what each __call__ hands to its generating function    *)
(***************************************************************************)

\* PointSourceArgs with power handed over as supplied, not through register.
PointSourceArgsUnregistered(m) ==
    [fn |-> "point_source",
     shape |-> m.shape, dx |-> m.dx, spectrum |-> m.spectrum,
     spectral_density |-> m.spectral_density,
     z |-> register(m, "z"), n |-> register(m, "n"),
     power |-> m.power, amplitude |-> register(m, "amplitude"),
     pupil |-> m.pupil, scalar |-> m.scalar, epsilon |-> m.epsilon]

PointSourceArgs(m) ==
    [fn |-> "point_source",
     shape |-> m.shape, dx |-> m.dx, spectrum |-> m.spectrum,
     spectral_density |-> m.spectral_density,
     z |-> register(m, "z"), n |-> register(m, "n"),
     power |-> register(m, "power"), amplitude |-> register(m, "amplitude"),
     pupil |-> m.pupil, scalar |-> m.scalar, epsilon |-> m.epsilon]

ObjectivePointSourceArgs(m, z) ==
    [fn |-> "objective_point_source",
     shape |-> m.shape, dx |-> m.dx, spectrum |-> m.spectrum,
     spectral_density |-> m.spectral_density,
     z |-> z,
     f |-> register(m, "f"), n |-> register(m, "n"), NA |-> register(m, "NA"),
     power |-> register(m, "power"), amplitude |-> register(m, "amplitude"),
     offset |-> register(m, "offset"), scalar |-> m.scalar]

\* PlaneWaveArgs with the pupil hook dropped.
PlaneWaveArgsNoPupil(m) ==
    [fn |-> "plane_wave",
     shape |-> m.shape, dx |-> m.dx, spectrum |-> m.spectrum,
     spectral_density |-> m.spectral_density,
     power |-> register(m, "power"), amplitude |-> register(m, "amplitude"),
     kykx |-> register(m, "kykx"),
     pupil |-> "None", scalar |-> m.scalar]

PlaneWaveArgs(m) ==
    [fn |-> "plane_wave",
     shape |-> m.shape, dx |-> m.dx, spectrum |-> m.spectrum,
     spectral_density |-> m.spectral_density,
     power |-> register(m, "power"), amplitude |-> register(m, "amplitude"),
     kykx |-> register(m, "kykx"),
     pupil |-> m.pupil, scalar |-> m.scalar]

GenericFieldArgs(m) ==
    [fn |-> "generic_field",
     dx |-> m.dx, spectrum |-> m.spectrum, spectral_density |-> m.spectral_density,
     amplitude |-> register(m, "amplitude"), phase |-> register(m, "phase"),
     power |-> register(m, "power"),
     pupil |-> m.pupil, scalar |-> m.scalar]

\* GaussianPlaneWaveArgs with the positional arguments power and amplitude swapped.
GaussianPlaneWaveArgsSwapped(m) ==
    [fn |-> "gaussian_plane_wave",
     shape |-> m.shape, dx |-> m.dx, spectrum |-> m.spectrum,
     spectral_density |-> m.spectral_density,
     waist |-> m.waist,
     power |-> register(m, "amplitude"), amplitude |-> register(m, "power"),
     kykx |-> register(m, "kykx"),
     pupil |-> m.pupil, scalar |-> m.scalar]

GaussianPlaneWaveArgs(m) ==
    [fn |-> "gaussian_plane_wave",
     shape |-> m.shape, dx |-> m.dx, spectrum |-> m.spectrum,
     spectral_density |-> m.spectral_density,
     waist |-> m.waist,
     power |-> register(m, "power"), amplitude |-> register(m, "amplitude"),
     kykx |-> register(m, "kykx"),
     pupil |-> m.pupil, scalar |-> m.scalar]

(***************************************************************************)
(* The generating functions (chromatix.functional.sources)                 *)
(***************************************************************************)

\* The arguments that reached the generating function as generator callables.
Unresolved(fa) == {k \in DOMAIN fa \cap ScalarNames : fa[k].gen}

\* The configuration errors of a source.
Invalid(fa) ==
    \/ "shape" \in DOMAIN fa /\ (fa.shape[1] % 2 # 0 \/ fa.shape[2] % 2 # 0)
    \/ Len(fa.spectral_density.v) # Len(fa.spectrum.v)
    \/ fa.dx.v <= 0
    \/ "waist" \in DOMAIN fa /\ fa.waist.v <= 0
    \/ "f" \in DOMAIN fa /\ fa.f.v <= 0

\* The integrated intensity of the base field, before pupil and normalization.
BasePower(fa) ==
    IF fa.fn = "generic_field" /\ fa.amplitude.v = 0 THEN 0 ELSE One

\* A pupil hook acting on the integrated intensity: an aperture stops half of
\* the light, a blocking mask all of it.
PupilPower(p, raw) ==
    CASE p = "aperture" -> raw \div 2
      [] p = "block" -> 0

HasPupil(fa) == "pupil" \in DOMAIN fa /\ fa.pupil # "None"

\* Power normalization: raw * P / (raw + epsilon).
Normalize(P, raw) == P - (P * epsilon) \div (raw + epsilon)

\* One field generation: validate, synthesize the base field, apply the pupil
\* hook, normalize the power.
Generate(fa) ==
    IF Unresolved(fa) # {} THEN [events |-> <<>>, out |-> Raised("TypeError")]
    ELSE IF Invalid(fa) THEN [events |-> <<>>, out |-> Raised("ConfigError")]
    ELSE LET raw == IF HasPupil(fa) THEN PupilPower(fa.pupil, BasePower(fa))
                    ELSE BasePower(fa)
         IN [events |-> <<"synthesize">>
                        \o (IF HasPupil(fa) THEN <<"pupil">> ELSE <<>>)
                        \o <<"normalize">>,
             out |-> [type |-> "Field", origin |-> fa, raw |-> raw,
                      power |-> Normalize(fa.power.v, raw), ops |-> <<>>]]

(***************************************************************************)
(* SpecSrc: one source element                                             *)
(***************************************************************************)

\* How a configuration departs from a valid one.
Deviations ==
    {"none", "odd_shape", "density_mismatch", "zero_dx", "negative_dx", "zero_waist",
     "negative_waist", "zero_f", "negative_f", "zero_amplitude"}

Pupils == {"None", "aperture", "block"}

Powers == {One, 2 * One}

DefocusValues == {1, 2}

\* The value supplied for attribute k under deviation dev and target power P.
AttrValue(cls, k, dev, P) ==
    CASE k = "shape" -> IF dev = "odd_shape" THEN <<3, 2>> ELSE <<2, 2>>
      [] k = "dx" -> IF dev = "zero_dx" THEN 0 ELSE IF dev = "negative_dx" THEN -1 ELSE 1
      [] k = "spectrum" -> <<1>>
      [] k = "spectral_density" -> IF dev = "density_mismatch" THEN <<1, 1>> ELSE <<1>>
      [] k = "waist" ->
           IF dev = "zero_waist" THEN 0 ELSE IF dev = "negative_waist" THEN -1 ELSE 1
      [] k = "f" -> IF dev = "zero_f" THEN 0 ELSE IF dev = "negative_f" THEN -1 ELSE 1
      [] k = "amplitude" ->
           IF dev = "zero_amplitude" /\ cls = "GenericField" THEN 0 ELSE 1
      [] k = "power" -> P
      [] k \in {"kykx", "offset"} -> <<0, 0>>
      [] k = "phase" -> 0
      [] k \in {"z", "n", "NA"} -> 1
      [] k = "scalar" -> TRUE
      [] k = "epsilon" -> epsilon

\* The keyword arguments of one construction: every field of the class, those
\* in gens as generator callables, and a pupil hook when one is supplied.
Kwargs(cls, dev, gens, pupil, P) ==
    [k \in (Fields(cls) \ {"pupil"}) \cup (IF pupil # "None" THEN {"pupil"} ELSE {}) |->
        IF k = "pupil" THEN pupil
        ELSE IF k \in ScalarNames
             THEN IF k \in gens THEN Generator(AttrValue(cls, k, dev, P))
                  ELSE Concrete(AttrValue(cls, k, dev, P))
             ELSE AttrValue(cls, k, dev, P)]

\* Constructing a source element.
NewSource ==
    /\ srcPc = "none"
    /\ \E cls \in SourceClasses, dev \in Deviations, pupil \in Pupils, P \in Powers :
         \E gens \in SUBSET (Fields(cls) \cap ScalarNames) :
            /\ Cardinality(gens) <= MaxGen
            /\ given' = [cls |-> cls, kw |-> Kwargs(cls, dev, gens, pupil, P)]
            /\ module' = NewModule(cls, Kwargs(cls, dev, gens, pupil, P))
            /\ srcPc' = IF IsRaised(module') THEN "ctor_error" ELSE "built"
    /\ UNCHANGED <<fnArgs, events, out>>
    /\ UNCHANGED sysVars

\* The generating function runs on fa and its result leaves __call__.
RunSource(fa) ==
    /\ fnArgs' = fa
    /\ events' = Generate(fa).events
    /\ out' = Generate(fa).out
    /\ srcPc' = IF IsRaised(Generate(fa).out) THEN "raised" ELSE "returned"
    /\ UNCHANGED <<given, module>>
    /\ UNCHANGED sysVars

PointSourceCall ==
    /\ srcPc = "built" /\ module.cls = "PointSource"
    /\ RunSource(PointSourceArgs(module))

ObjectivePointSourceCall ==
    /\ srcPc = "built" /\ module.cls = "ObjectivePointSource"
    /\ \E z \in DefocusValues : RunSource(ObjectivePointSourceArgs(module, Concrete(z)))

PlaneWaveCall ==
    /\ srcPc = "built" /\ module.cls = "PlaneWave"
    /\ RunSource(PlaneWaveArgs(module))

GenericFieldCall ==
    /\ srcPc = "built" /\ module.cls = "GenericField"
    /\ RunSource(GenericFieldArgs(module))

GaussianPlaneWaveCall ==
    /\ srcPc = "built" /\ module.cls = "GaussianPlaneWave"
    /\ RunSource(GaussianPlaneWaveArgs(module))

InitSys ==
    /\ sys = "none" /\ elements = <<>> /\ configured = <<>> /\ factory = None
    /\ pc = "idle" /\ args = <<>> /\ field = None /\ idx = 1 /\ calls = <<>>
    /\ result = None /\ hist = <<>>

InitSrc ==
    /\ given = None /\ module = None /\ srcPc = "none" /\ fnArgs = None /\ events = <<>> /\ out = None

Init == InitSys /\ InitSrc

NextSrc ==
    \/ NewSource
    \/ PointSourceCall
    \/ ObjectivePointSourceCall
    \/ PlaneWaveCall
    \/ GenericFieldCall
    \/ GaussianPlaneWaveCall

SpecSrc == Init /\ [][NextSrc]_vars

(***************************************************************************)
(* Optical elements as OpticalSystem sees them: callables                  *)
(***************************************************************************)

\* A callable that accepts any one argument and returns it (lambda x: x).
Identity == [cls |-> "identity"]

\* A callable that reduces a Field to an Array (lambda field: field.intensity).
Intensity == [cls |-> "intensity"]

\* A callable that raises whatever it is given.
Failing == [cls |-> "raises"]

\* chromatix.elements.Propagate(z, n).
Propagate(z, n) == [cls |-> "Propagate", z |-> z, n |-> n]

\* chromatix.elements.ThinLens(f, n, NA).
ThinLens(f, n, NA) == [cls |-> "ThinLens", f |-> f, n |-> n, NA |-> NA]

\* A Field handed to a system whose first element is not a source.
InputField ==
    [type |-> "Field", origin |-> [fn |-> "input"], raw |-> One, power |-> One, ops |-> <<>>]

\* What calling element e with the positional arguments a returns or raises.
\* A field-to-field element leaves its mark on the field it returns.
Apply(e, a) ==
    CASE e.cls = "identity" ->
           IF Len(a) = 1 THEN a[1] ELSE Raised("TypeError")
      [] e.cls = "intensity" ->
           IF Len(a) # 1 THEN Raised("TypeError")
           ELSE IF ~IsField(a[1]) THEN Raised("AttributeError")
           ELSE [type |-> "Array", of |-> a[1]]
      [] e.cls = "raises" -> Raised("RuntimeError")
      [] e.cls = "Propagate" ->
           IF Len(a) # 1 THEN Raised("TypeError")
           ELSE IF ~IsField(a[1]) THEN Raised("AttributeError")
           ELSE IF e.n <= 0 THEN Raised("ConfigError")
           ELSE [a[1] EXCEPT !.ops = Append(@, e)]
      [] e.cls = "ThinLens" ->
           IF Len(a) # 1 THEN Raised("TypeError")
           ELSE IF ~IsField(a[1]) THEN Raised("AttributeError")
           ELSE IF e.f <= 0 \/ e.n <= 0 THEN Raised("ConfigError")
           ELSE [a[1] EXCEPT !.ops = Append(@, e)]
      [] e.cls = "ObjectivePointSource" ->
           IF Len(a) # 1 \/ a[1].type # "Scalar" THEN Raised("TypeError")
           ELSE Generate(ObjectivePointSourceArgs(e, Concrete(a[1].v))).out
      [] e.cls = "GaussianPlaneWave" ->
           IF Len(a) # 0 THEN Raised("TypeError")
           ELSE Generate(GaussianPlaneWaveArgs(e)).out

(***************************************************************************)
(* system_prop_lens_prop                                                   *)
(***************************************************************************)

\* system_prop_lens_prop with the lens placed before the first propagation.
system_lens_prop_prop(p) ==
    << NewModule("GaussianPlaneWave",
                 [shape |-> p.shape, dx |-> Concrete(p.dx),
                  spectrum |-> Concrete(p.spectrum),
                  spectral_density |-> Concrete(p.spectral_density),
                  waist |-> Concrete(p.waist), power |-> Concrete(p.power)]),
       ThinLens(p.f, p.n, p.NA),
       Propagate(p.z1, p.n),
       Propagate(p.z2, p.n) >>

\* system_prop_lens_prop that passes neither waist nor f on, so that the source
\* and the lens are built with a valid value of their own.
system_prop_lens_prop_defaults(p) ==
    << NewModule("GaussianPlaneWave",
                 [shape |-> p.shape, dx |-> Concrete(p.dx),
                  spectrum |-> Concrete(p.spectrum),
                  spectral_density |-> Concrete(p.spectral_density),
                  waist |-> Concrete(1), power |-> Concrete(p.power)]),
       Propagate(p.z1, p.n),
       ThinLens(1, p.n, p.NA),
       Propagate(p.z2, p.n) >>

system_prop_lens_prop(p) ==
    << NewModule("GaussianPlaneWave",
                 [shape |-> p.shape, dx |-> Concrete(p.dx),
                  spectrum |-> Concrete(p.spectrum),
                  spectral_density |-> Concrete(p.spectral_density),
                  waist |-> Concrete(p.waist), power |-> Concrete(p.power)]),
       Propagate(p.z1, p.n),
       ThinLens(p.f, p.n, p.NA),
       Propagate(p.z2, p.n) >>

\* The arguments the factory is called with: a valid configuration or one that
\* departs from it in one way.
FactoryParams ==
    {[shape |-> AttrValue("GaussianPlaneWave", "shape", dev, One),
      dx |-> AttrValue("GaussianPlaneWave", "dx", dev, One),
      spectrum |-> AttrValue("GaussianPlaneWave", "spectrum", dev, One),
      spectral_density |-> AttrValue("GaussianPlaneWave", "spectral_density", dev, One),
      waist |-> AttrValue("GaussianPlaneWave", "waist", dev, One),
      z1 |-> z1, z2 |-> z2,
      f |-> AttrValue("ThinLens", "f", dev, One),
      n |-> n, power |-> One, NA |-> NA] :
        dev \in Deviations, z1 \in DefocusValues, z2 \in DefocusValues,
        n \in {1, 2}, NA \in {None, Concrete(1)}}

(***************************************************************************)
(* Spec: one OpticalSystem                                                 *)
(***************************************************************************)

\* A valid ObjectivePointSource of focal length f.
ObjectiveSource(f) ==
    NewModule("ObjectivePointSource",
              [shape |-> <<2, 2>>, dx |-> Concrete(1), spectrum |-> Concrete(<<1>>),
               spectral_density |-> Concrete(<<1>>), f |-> Concrete(f),
               n |-> Concrete(1), NA |-> Concrete(1)])

\* A valid GaussianPlaneWave.
GaussianSource ==
    NewModule("GaussianPlaneWave",
              [shape |-> <<2, 2>>, dx |-> Concrete(1), spectrum |-> Concrete(<<1>>),
               spectral_density |-> Concrete(<<1>>), waist |-> Concrete(1)])

\* The callables that take a field.
LaterElements == {Identity, Intensity, Failing, Propagate(1, 1), ThinLens(1, 1, None)}

\* The callables a list may start with.
FirstElements == LaterElements \cup {ObjectiveSource(1), ObjectiveSource(2), GaussianSource}

SeqsUpTo(S, n) == UNION {[1..k -> S] : k \in 0..n}

\* The element lists a system is constructed with, the empty list included.
ElementLists ==
    {<<>>} \cup {<<e>> \o rest : e \in FirstElements, rest \in SeqsUpTo(LaterElements, MaxElems - 1)}

\* The leading arguments of an invocation.
ArgLists == {<<>>, <<Scalar(1)>>, <<Scalar(2)>>, <<InputField>>}

\* OpticalSystem(elements=els): the dataclass constructor stores the list.
Construct ==
    /\ sys = "none"
    /\ \E els \in ElementLists :
         /\ elements' = els
         /\ configured' = els
    /\ sys' = "built"
    /\ UNCHANGED <<factory, pc, args, field, idx, calls, result, hist>>
    /\ UNCHANGED srcVars

\* system_prop_lens_prop(...) builds the system.
SystemPropLensProp ==
    /\ sys = "none"
    /\ \E p \in FactoryParams :
         /\ elements' = system_prop_lens_prop(p)
         /\ configured' = system_prop_lens_prop(p)
         /\ factory' = p
    /\ sys' = "built"
    /\ UNCHANGED <<pc, args, field, idx, calls, result, hist>>
    /\ UNCHANGED srcVars

\* FirstCall that lets an empty list through with no field.
FirstCallLenient(els, a) ==
    IF Len(els) = 0 THEN [called |-> FALSE, out |-> None]
    ELSE [called |-> TRUE, out |-> Apply(els[1], a)]

\* FirstCall that keeps the field of the previous invocation when there is one.
FirstCallCached(els, a) ==
    IF hist # <<>> /\ ~IsRaised(hist[Len(hist)].outcome)
    THEN [called |-> FALSE, out |-> hist[Len(hist)].outcome]
    ELSE IF Len(els) = 0 THEN [called |-> FALSE, out |-> Raised("IndexError")]
    ELSE [called |-> TRUE, out |-> Apply(els[1], a)]

\* field = self.elements[0](*args, **kwargs): an empty list is an IndexError
\* before anything is called.
FirstCall(els, a) ==
    IF Len(els) = 0 THEN [called |-> FALSE, out |-> Raised("IndexError")]
    ELSE [called |-> TRUE, out |-> Apply(els[1], a)]

\* self.elements[2:]: the loop skips a stage.
RestSkip(els) == SubSeq(els, 3, Len(els))

\* self.elements[1:]
Rest(els) == SubSeq(els, 2, Len(els))

\* NextField behind a type check: a value that is no field is refused.
NextFieldChecked(e, f) ==
    IF ~IsField(f) THEN Raised("TypeError") ELSE Apply(e, <<f>>)

\* field = element(field)
NextField(e, f) == Apply(e, <<f>>)

\* An exception raised by an element is swallowed.
Swallowed(r) == FALSE

\* __call__ has no try/except: an exception raised by an element leaves it.
Propagates(r) == IsRaised(r)

\* The invocation ends by raising r.
Fail(a, r) ==
    /\ pc' = "raised"
    /\ result' = r
    /\ field' = None
    /\ hist' = Append(hist, [args |-> a, outcome |-> r])

\* __call__ is entered with arguments a and runs the first element.
Invoke ==
    /\ sys = "built"
    /\ pc \in {"idle", "returned", "raised"}
    /\ Len(hist) < MaxCalls
    /\ \E a \in ArgLists :
         LET fc == FirstCall(elements, a) IN
         /\ args' = a
         /\ idx' = 1
         /\ calls' = IF fc.called
                     THEN <<[el |-> elements[1], in |-> a, out |-> fc.out]>>
                     ELSE <<>>
         /\ IF Propagates(fc.out)
            THEN Fail(a, fc.out)
            ELSE /\ pc' = "loop"
                 /\ field' = fc.out
                 /\ result' = None
                 /\ hist' = hist
    /\ UNCHANGED <<sys, elements, configured, factory>>
    /\ UNCHANGED srcVars

\* One iteration of the for loop.
Step ==
    /\ pc = "loop"
    /\ idx <= Len(Rest(elements))
    /\ LET e == Rest(elements)[idx]
           r == NextField(e, field)
       IN /\ calls' = Append(calls, [el |-> e, in |-> <<field>>, out |-> r])
          /\ IF Propagates(r)
             THEN Fail(args, r) /\ idx' = idx
             ELSE /\ field' = r
                  /\ idx' = idx + 1
                  /\ UNCHANGED <<pc, result, hist>>
    /\ UNCHANGED <<sys, elements, configured, factory, args>>
    /\ UNCHANGED srcVars

\* return field
Return ==
    /\ pc = "loop"
    /\ idx > Len(Rest(elements))
    /\ pc' = "returned"
    /\ result' = field
    /\ field' = None
    /\ hist' = Append(hist, [args |-> args, outcome |-> field])
    /\ UNCHANGED <<sys, elements, configured, factory, args, idx, calls>>
    /\ UNCHANGED srcVars

Next ==
    \/ Construct
    \/ SystemPropLensProp
    \/ Invoke
    \/ Step
    \/ Return

Spec == Init /\ [][Next]_vars

(***************************************************************************)
(* Properties of OpticalSystem, checked under Spec                         *)
(***************************************************************************)

\* A value that is neither a field nor an exception.
NonField(v) == ~IsField(v) /\ ~IsRaised(v)

\* Every recorded call is the call of the element at its position in the list,
\* and records what that element does with what it was given.
CallsFollowList ==
    /\ Len(calls) <= Len(elements)
    /\ \A k \in DOMAIN calls :
         /\ calls[k].el = elements[k]
         /\ calls[k].out = Apply(elements[k], calls[k].in)

\* C1: an invocation of a non-empty element list calls e0 with the leading
\* arguments, then every later element exactly once, in list order, each with
\* exactly the value its predecessor returned as its only argument, and returns
\* exactly what the last element returned; nothing is skipped, repeated or
\* reordered.
C1_SequentialComposition ==
    /\ (pc \in {"loop", "returned"}) =>
         /\ CallsFollowList
         /\ calls # <<>>
         /\ calls[1].in = args
         /\ \A k \in 2..Len(calls) : calls[k].in = <<calls[k - 1].out>>
    /\ pc = "returned" =>
         /\ Len(calls) = Len(elements)
         /\ result = calls[Len(calls)].out

C1_Witness ==
    /\ pc = "returned"
    /\ Len(elements) = 3
    /\ elements[2] # elements[3]
    /\ IsField(result)

\* C2: a system with an empty element list is rejected with an error at its
\* first use: every invocation raises, no element is called, nothing is returned.
C2_EmptyListRejected ==
    (sys = "built" /\ Len(elements) = 0) =>
        /\ pc \in {"idle", "raised"}
        /\ calls = <<>>
        /\ hist # <<>> =>
             /\ pc = "raised"
             /\ result = Raised("IndexError")
        /\ \A i \in DOMAIN hist : hist[i].outcome = Raised("IndexError")

C2_Witness ==
    /\ sys = "built"
    /\ Len(elements) = 0
    /\ Len(hist) = 2
    /\ pc = "raised"

\* C3 as stated: when a non-terminal stage returns a value that is not a field,
\* the next stage is not run on it and the invocation returns no result.
C3_Original ==
    \A k \in DOMAIN calls :
        (k < Len(elements) /\ NonField(calls[k].out)) =>
            /\ Len(calls) = k
            /\ pc # "returned"

\* C3, amended: when a non-terminal stage returns a value that is not a field,
\* OpticalSystem neither checks nor coerces it: the invocation goes on, the next
\* stage is called with exactly that value and decides the outcome itself, and
\* an invocation of a non-empty list raises only what one of its stages raised.
C3_NoTypeCheck ==
    /\ \A k \in DOMAIN calls :
         (k < Len(elements) /\ NonField(calls[k].out)) =>
            /\ Len(calls) = k => pc = "loop"
            /\ Len(calls) > k =>
                 /\ calls[k + 1].el = elements[k + 1]
                 /\ calls[k + 1].in = <<calls[k].out>>
                 /\ calls[k + 1].out = Apply(elements[k + 1], <<calls[k].out>>)
    /\ (pc = "raised" /\ Len(elements) > 0) =>
         /\ calls # <<>>
         /\ result = calls[Len(calls)].out

C3_Witness ==
    /\ pc = "returned"
    /\ \E k \in DOMAIN calls :
         /\ k < Len(elements)
         /\ NonField(calls[k].out)
         /\ calls[k + 1].in = <<calls[k].out>>

RECURSIVE Thread(_, _, _)
\* The value v threaded through els from position k on, an exception ending it.
Thread(els, k, v) ==
    IF IsRaised(v) \/ k > Len(els) THEN v
    ELSE Thread(els, k + 1, Apply(els[k], <<v>>))

\* What a system that was never invoked before returns or raises for a.
FreshResult(els, a) ==
    IF Len(els) = 0 THEN Raised("IndexError")
    ELSE Thread(els, 2, Apply(els[1], a))

\* C4: OpticalSystem keeps no state between invocations: the element list stays
\* the configured one, every invocation ends as the first-ever invocation with
\* the same arguments would, whatever was invoked before, and a field that a
\* system starting with ObjectivePointSource returns for z = b is the one
\* generated from b and the configured attributes.
C4_Stateless ==
    /\ sys = "built" => elements = configured
    /\ \A i \in DOMAIN hist :
         /\ hist[i].outcome = FreshResult(elements, hist[i].args)
         /\ \A j \in DOMAIN hist :
              hist[i].args = hist[j].args => hist[i].outcome = hist[j].outcome
         /\ ( /\ Len(elements) > 0
              /\ elements[1].cls = "ObjectivePointSource"
              /\ IsField(hist[i].outcome) ) =>
                 /\ hist[i].args = <<Scalar(hist[i].outcome.origin.z.v)>>
                 /\ hist[i].outcome.origin.fn = "objective_point_source"
                 /\ \A k \in {"f", "n", "NA", "power", "amplitude", "offset"} :
                      hist[i].outcome.origin[k] = Concrete(elements[1][k].v)

C4_Witness ==
    /\ Len(hist) = 2
    /\ Len(elements) > 0
    /\ elements[1].cls = "ObjectivePointSource"
    /\ hist[1].args = <<Scalar(1)>>
    /\ hist[2].args = <<Scalar(2)>>
    /\ IsField(hist[1].outcome)
    /\ IsField(hist[2].outcome)
    /\ hist[2].outcome.origin.z = Concrete(2)

\* The configuration errors among the arguments of system_prop_lens_prop that
\* the source detects.
BadSourceParams(p) ==
    \/ p.shape[1] % 2 # 0 \/ p.shape[2] % 2 # 0
    \/ Len(p.spectral_density) # Len(p.spectrum)
    \/ p.waist <= 0
    \/ p.dx <= 0

C9_PropLensProp ==
    factory # None =>
        /\ Len(elements) = 4
        /\ elements[1].cls = "GaussianPlaneWave"
        /\ elements[2] = Propagate(factory.z1, factory.n)
        /\ elements[3] = ThinLens(factory.f, factory.n, factory.NA)
        /\ elements[4] = Propagate(factory.z2, factory.n)
        /\ Len(calls) <= 4
        /\ \A k \in DOMAIN calls : calls[k].el = elements[k]
        /\ pc = "returned" =>
             /\ Len(calls) = 4
             /\ IsField(result)
             /\ result.origin.fn = "gaussian_plane_wave"
             /\ result.ops = << Propagate(factory.z1, factory.n),
                                ThinLens(factory.f, factory.n, factory.NA),
                                Propagate(factory.z2, factory.n) >>

C9_Witness ==
    /\ factory # None
    /\ factory.z1 # factory.z2
    /\ pc = "returned"
    /\ Len(calls) = 4

\* C10: when a stage fails, the invocation fails with that error at once: no
\* later stage is called, the stage is not called again, and nothing is
\* returned; an invocation that has ended either ran every stage or raised.
C10_FailFast ==
    /\ \A k \in DOMAIN calls :
         IsRaised(calls[k].out) =>
            /\ k = Len(calls)
            /\ pc = "raised"
            /\ result = calls[k].out
    /\ \A k \in DOMAIN calls : k <= Len(elements) /\ calls[k].el = elements[k]
    /\ pc = "returned" =>
         /\ Len(calls) = Len(elements)
         /\ ~IsRaised(result)
    /\ pc = "raised" => IsRaised(result)
    /\ \A i \in DOMAIN hist :
         IsRaised(hist[i].outcome) \/ hist[i].outcome = FreshResult(elements, hist[i].args)

C10_Witness ==
    /\ pc = "raised"
    /\ Len(elements) = 3
    /\ Len(calls) = 2
    /\ IsRaised(calls[2].out)
    /\ result = calls[2].out

(***************************************************************************)
(* Properties of the source elements, checked under SpecSrc                *)
(***************************************************************************)

PupilSupplied == given # None /\ "pupil" \in DOMAIN given.kw

\* C5 as stated: every source generator accepts a pupil hook, and a supplied
\* hook is invoked exactly once per field generation, after the base field is
\* synthesized and before power normalization.
C5_Original ==
    PupilSupplied =>
        /\ srcPc # "ctor_error"
        /\ srcPc = "returned" => events = <<"synthesize", "pupil", "normalize">>

\* C5, amended: PointSource, PlaneWave, GenericField and GaussianPlaneWave
\* accept a pupil hook, hand it to their generating function, and a supplied
\* hook is invoked exactly once per field generation, after the base field is
\* synthesized and before power normalization; ObjectivePointSource has no
\* pupil attribute, and constructing it with a pupil hook is refused.
C5_PupilHook ==
    PupilSupplied =>
        IF given.cls = "ObjectivePointSource"
        THEN srcPc = "ctor_error" /\ fnArgs = None /\ events = <<>>
        ELSE /\ srcPc # "ctor_error"
             /\ srcPc \in {"returned", "raised"} => fnArgs.pupil = given.kw.pupil
             /\ srcPc = "returned" => events = <<"synthesize", "pupil", "normalize">>

C5_Witness ==
    /\ PupilSupplied
    /\ given.cls = "PlaneWave"
    /\ srcPc = "returned"
    /\ events = <<"synthesize", "pupil", "normalize">>

\* The attributes C6 names.
ListedNames ==
    {"z", "n", "f", "NA", "power", "amplitude", "kykx", "offset", "phase", "waist"}

\* The attributes no source passes through register.
PassedAsSupplied == {"dx", "spectrum", "spectral_density", "waist"}

\* C6 as stated: no attribute among z, n, f, NA, power, amplitude, kykx, offset,
\* phase and waist reaches the generating function as an unresolved generator
\* callable.
C6_Original ==
    fnArgs # None => \A k \in DOMAIN fnArgs \cap ListedNames : ~fnArgs[k].gen

\* C6, amended: every attribute of a source element other than waist, dx,
\* spectrum and spectral_density that is supplied as a generator callable
\* reaches the generating function resolved to the generator's value; waist,
\* dx, spectrum and spectral_density are not passed through register and reach
\* the generating function as they were supplied.
C6_RegisteredResolved ==
    fnArgs # None =>
        /\ Unresolved(fnArgs) \subseteq PassedAsSupplied
        /\ \A k \in (DOMAIN fnArgs \cap DOMAIN module \cap ScalarNames) :
             IF k \in PassedAsSupplied
             THEN fnArgs[k] = module[k]
             ELSE fnArgs[k] = Concrete(module[k].v)

C6_Witness ==
    /\ fnArgs # None
    /\ module.cls = "PointSource"
    /\ module.power.gen
    /\ module.z.gen
    /\ fnArgs.power = Concrete(module.power.v)
    /\ srcPc = "returned"

\* The numerical tolerance of a power comparison.
Tolerance == One \div 1024

Abs(x) == IF x < 0 THEN -x ELSE x

====
